---- MODULE Spec2Model ----
(***************************************************************************)
(* Model of src/ai_agents.py: a Streamlit script that is executed from top *)
(* to bottom on every user interaction.  One execution of the script       *)
(* ("script run") reads the sidebar keys, checks them, initialises the     *)
(* Composio tools, constructs four agents and then evaluates the four      *)
(* button handlers.  A text is a sequence of tokens; the token " " stands  *)
(* for white space, every other token for a run of non-blank characters.   *)
(***************************************************************************)
EXTENDS Integers, Sequences, FiniteSets, TLC

\* ------------------------------------------------------------------ bounds
\* Number of button presses explored in one behaviour.
MaxActions == 3

\* Number of button presses explored where progress is checked.
MaxLiveActions == 2

\* --------------------------------------------------------- texts and inputs
\* Values the user can type into a sidebar key field.
KeyTexts == { <<>>, <<" ">>, <<" ", "sk", " ">> }

\* Values the user can type into a text area.
InputTexts == { <<>>, <<" ", "hoi", " ">> }

\* Contents an agent can answer with: empty, with a link, without a link and
\* ending in white space.
Contents == { <<>>, <<"Doc:", " ", "https://docs.example/abc">>, <<"garbled", " ">> }

\* Exceptions an agent invocation can raise.
Errors == { "APIConnectionError", "ModelProviderError" }

\* Lists the tool integration can hand out for one requested action.
ToolLists(action) == { <<>>, <<action>> }

\* An unbound name or a button that is not pressed.
NoValue == "<none>"

\* A structured value that may be absent: None, or Some(v).
None == <<>>
Some(v) == <<v>>

\* str.strip(): drop leading and trailing white space.
RECURSIVE lstrip(_)
lstrip(s) == IF s # <<>> /\ Head(s) = " " THEN lstrip(Tail(s)) ELSE s

RECURSIVE rstrip(_)
rstrip(s) ==
  IF s # <<>> /\ s[Len(s)] = " " THEN rstrip(SubSeq(s, 1, Len(s) - 1)) ELSE s

strip(s) == rstrip(lstrip(s))

\* Python truth value of a string or list: empty is false.
Truthy(s) == s # <<>>

\* ---------------------------------------------------------- static program
Buttons == { "Run Daily Language Coach", "Run Language Assessor",
             "Practice Dutch Conversation", "Generate Weekly Plan" }

SessionKeys == { "openai_api_key", "composio_api_key", "serpapi_api_key",
                 "daily_input", "weekly_summary" }

AgentVars == { "daily_coach_agent", "language_assessor_agent",
               "weekly_planner_agent", "virtual_partner_agent" }

GOOGLEDOCS_CREATE_DOCUMENT == "GOOGLEDOCS_CREATE_DOCUMENT"
GOOGLEDOCS_UPDATE_EXISTING_DOCUMENT == "GOOGLEDOCS_UPDATE_EXISTING_DOCUMENT"

\* The fixed message of the conversation handler.
ConversationPrompt ==
  << "Let's", " ", "simulate", " ", "a", " ", "Dutch", " ", "conversation",
     " ", "based", " ", "on", " ", "today's", " ", "practice.", " ", "Focus",
     " ", "on", " ", "realistic", " ", "interaction", " ", "and", " ",
     "interview", " ", "style." >>

ComposioToolSet(key) == [ api_key |-> key ]

OpenAIChat(key) == [ id |-> "gpt-4o-mini", api_key |-> key ]

daily_coach_instructions ==
  << "Teach the user 5 to 10 new important Dutch words or phrases daily that are useful for Dutch-speaking job interviews.",
     "For each word or phrase, provide:",
     "- The Dutch word/phrase",
     "- English translation",
     "- Example sentence in Dutch",
     "- English translation of the example sentence",
     "- Quick tip on when to use it (formally, casually, common interview situations)",
     "Be supportive, motivating, and realistic.",
     "After generating the feedback, use the provided Google Docs tool to create a real Google Document with the content you wrote. Then include the actual Google Doc link in your final response.",
     "Make sure to include the link to the Google Doc in your response.",
     "Use the Google Docs tool to create a new document for each daily feedback session." >>

language_assessor_instructions ==
  << "Teach the user 1 key Dutch grammar topic daily that is important for Dutch-speaking job interviews.",
     "Explain the grammar concept in simple Dutch, and also add an English explanation.",
     "Give at least 3 Dutch example sentences using the grammar rule, with English translations.",
     "Provide a few short exercises (fill in the blanks, correct the sentence, etc.) based on the topic.",
     "Create a well-formatted Google Doc with today's grammar lesson and exercises.",
     "Return the real Google Doc link to the user." >>

weekly_planner_instructions ==
  << "Track the user's Dutch learning journey: topics mastered, new vocabulary learned, common mistakes identified.",
     "Create a clear weekly study plan: topics to review, new topics to study, and daily activities.",
     "Organize the plan in a simple weekly schedule format.",
     "Align all planning with the user's goal to prepare for Dutch-speaking job interviews at B1 level fluency.",
     "Store the weekly plan in a Google Doc and include the link in the response." >>

virtual_partner_instructions ==
  << "Simulate a realistic Dutch conversation based on job interviews or daily life topics.",
     "Adjust conversation difficulty to user's current level.",
     "Correct grammar, vocabulary, and structure politely and explain corrections.",
     "Suggest useful expressions or structures to sound more natural.",
     "Summarize the conversation, list key mistakes and suggestions for improvement.",
     "Store the conversation summary in a Google Doc and include the link in the response." >>

\* An agent that is also given the document-update tool.
Agent_BothTools(name, role, model, tools, instructions) ==
  [ name |-> name, role |-> role, model |-> model,
    tools |-> tools \o << GOOGLEDOCS_UPDATE_EXISTING_DOCUMENT >>,
    instructions |-> instructions, show_tool_calls |-> TRUE, markdown |-> TRUE ]

\* An agent that is given the document-update tool in place of its tool.
Agent_UpdateTool(name, role, model, tools, instructions) ==
  [ name |-> name, role |-> role, model |-> model,
    tools |-> << GOOGLEDOCS_UPDATE_EXISTING_DOCUMENT >>,
    instructions |-> instructions, show_tool_calls |-> TRUE, markdown |-> TRUE ]

Agent(name, role, model, tools, instructions) ==
  [ name |-> name, role |-> role, model |-> model, tools |-> tools,
    instructions |-> instructions, show_tool_calls |-> TRUE, markdown |-> TRUE ]

\* Agent statements in which the second agent kept the name and role of the
\* first.
AgentDefinitions_SameRole(key, tool) ==
  [ daily_coach_agent |->
      Agent("Dutch Vocabulary Teacher", "Dutch Vocabulary Teacher",
            OpenAIChat(key), <<tool>>, daily_coach_instructions),
    language_assessor_agent |->
      Agent("Dutch Vocabulary Teacher", "Dutch Vocabulary Teacher",
            OpenAIChat(key), <<tool>>, language_assessor_instructions),
    weekly_planner_agent |->
      Agent("Weekly Language Planner", "Dutch Learning Tracker and Planner",
            OpenAIChat(key), <<tool>>, weekly_planner_instructions),
    virtual_partner_agent |->
      Agent("Virtual Dutch Partner", "Dutch Conversation Practice Simulator",
            OpenAIChat(key), <<tool>>, virtual_partner_instructions) ]

\* The four module-level agents of one script run, built from the key held in
\* the session state and the tool handle google_docs_tool.
AgentDefinitions(key, tool) ==
  [ daily_coach_agent |->
      Agent("Dutch Vocabulary Teacher", "Dutch Vocabulary Teacher",
            OpenAIChat(key), <<tool>>, daily_coach_instructions),
    language_assessor_agent |->
      Agent("Dutch Grammar Coach", "Dutch Grammar Coach",
            OpenAIChat(key), <<tool>>, language_assessor_instructions),
    weekly_planner_agent |->
      Agent("Weekly Language Planner", "Dutch Learning Tracker and Planner",
            OpenAIChat(key), <<tool>>, weekly_planner_instructions),
    virtual_partner_agent |->
      Agent("Virtual Dutch Partner", "Dutch Conversation Practice Simulator",
            OpenAIChat(key), <<tool>>, virtual_partner_instructions) ]

\* -------------------------------------------------------------------- state
VARIABLES
  pc,                     \* position of the script run, "idle" between runs
  widgets,                \* value held by each input widget of the page
  rendered,               \* buttons and text areas drawn by the current run
  clicked,                \* the button whose press started this run
  session_state,          \* st.session_state
  environ,                \* os.environ["OPENAI_API_KEY"]
  composio_toolset,       \* module-level names of the script run
  requested,              \* actions passed to composio_toolset.get_tools
  create_tools,
  update_tools,
  google_docs_tool,
  google_docs_tool_update,
  agents,                 \* the agent variables bound so far in this run
  inflight,               \* the agent.run call that has not come back yet
  response,               \* the RunResponse bound by the handler
  raised,                 \* the exception agent.run ended with in this run
  ui,                     \* st.error / st.success / st.markdown output of the run
  terminal,               \* pprint_run_response output of the run
  log,                    \* every agent.run invocation made so far
  action_no,              \* number of button presses so far
  validated               \* handler input checks passed and failed so far

page == << widgets, rendered, clicked >>
namespace == << composio_toolset, requested, create_tools, update_tools,
               google_docs_tool, google_docs_tool_update, agents, response,
               raised >>
output == << ui, terminal >>
history == << log, action_no, validated >>
script == << pc, page, session_state, environ, namespace, inflight, output,
             history >>

\* ------------------------------------------ state of the library classes
\* A WebsiteReader (agno/document/reader/website_reader.py) and the web site
\* it crawls.
VARIABLES
  site,                   \* the web site: what a GET of each URL answers
  max_depth,              \* self.max_depth
  max_links,              \* self.max_links
  visited,                \* self._visited
  urls_to_crawl,          \* self._urls_to_crawl: list of (url, depth)
  num_links,              \* locals of the running crawl
  crawler_result,
  primary_domain,
  crawl_pc,               \* "ready", or the method whose loop is running
  crawl_call,             \* method and arguments of the running call
  fetched,                \* the GET requests of the running call, in order
  returned                \* the calls that have returned, with their result

reader == << site, max_depth, max_links, visited, urls_to_crawl, num_links,
            crawler_result, primary_domain, crawl_pc, crawl_call, fetched,
            returned >>

\* MongoDb (agno/vectordb/mongodb/mongodb.py): a call of _create_search_index.
VARIABLES
  wait_until_index_ready, \* self.wait_until_index_ready, 0 when not given
  overwrite,              \* the argument of _create_search_index
  index_pc,               \* position in _create_search_index
  attempt,                \* the loop variable
  retries,                \* the counter of the wait for the deletion
  creates,                \* every create_search_index call: attempt, exception
  retried,                \* the failures after which the loop went on
  index_error,            \* the exception the call ended with
  elapsed                 \* seconds slept in _wait_for_index_ready

search_index == << wait_until_index_ready, overwrite, index_pc, attempt,
                  retries, creates, retried, index_error, elapsed >>

\* AgenticChunking (agno/document/chunking/agentic.py): a call of chunk.
VARIABLES
  max_chunk_size,         \* self.max_chunk_size
  content,                \* document.content
  remaining_text,         \* locals of chunk
  chunks,
  chunk_number,
  chunk_pc                \* "ready", "loop" or "returned"

chunker == << max_chunk_size, content, remaining_text, chunks, chunk_number,
             chunk_pc >>

\* MongoDb (agno/vectordb/mongodb/mongodb.py): the documents of a collection.
VARIABLES
  collection,             \* the collection: the document stored under each _id
  stored,                 \* the documents insert or upsert has written, with
                          \* the _id each was written under
  lookup                  \* the doc_exists call made since the last write

store == << collection, stored, lookup >>

library == << reader, search_index, chunker, store >>

vars == << script, library >>

KeyFields == { "Enter your OpenAI API Key", "Enter your Composio API Key" }
DailyArea == "Paste your daily Dutch exercises, answers, or writing here:"
WeeklyArea == "Write a quick summary of your week's learning progress:"
TextAreas == { DailyArea, WeeklyArea }

\* A function with no keys: a dict or namespace nothing has been put in yet.
Empty == [ k \in {} |-> NoValue ]

Element(kind, body) == [ kind |-> kind, body |-> body ]

\* What every run starts from: a fresh module namespace and an empty page.
FreshRun ==
  /\ composio_toolset' = None
  /\ requested' = <<>>
  /\ create_tools' = <<>>
  /\ update_tools' = <<>>
  /\ google_docs_tool' = NoValue
  /\ google_docs_tool_update' = NoValue
  /\ agents' = Empty
  /\ response' = None
  /\ raised' = None
  /\ ui' = <<>>
  /\ terminal' = <<>>
  /\ rendered' = {}
  /\ pc' = "session_init"

\* st.stop(): the run ends here.
Stop == pc' = "idle"

\* No WebsiteReader has been constructed.
ReaderUnused ==
  /\ site = Empty
  /\ max_depth = 0
  /\ max_links = 0
  /\ visited = {}
  /\ urls_to_crawl = <<>>
  /\ num_links = 0
  /\ crawler_result = Empty
  /\ primary_domain = <<>>
  /\ crawl_pc = "ready"
  /\ crawl_call = <<>>
  /\ fetched = <<>>
  /\ returned = <<>>

\* No MongoDb has been constructed.
SearchIndexUnused ==
  /\ wait_until_index_ready = 0
  /\ overwrite = FALSE
  /\ index_pc = "ready"
  /\ attempt = 0
  /\ retries = 0
  /\ creates = <<>>
  /\ retried = <<>>
  /\ index_error = None
  /\ elapsed = 0

\* No AgenticChunking has been constructed.
ChunkerUnused ==
  /\ max_chunk_size = 0
  /\ content = <<>>
  /\ remaining_text = <<>>
  /\ chunks = <<>>
  /\ chunk_number = 0
  /\ chunk_pc = "ready"

\* No collection is in use.
StoreUnused ==
  /\ collection = Empty
  /\ stored = {}
  /\ lookup = None

LibraryUnused ==
  ReaderUnused /\ SearchIndexUnused /\ ChunkerUnused /\ StoreUnused

\* The script before its first statement: nothing is bound, drawn or typed.
ScriptStart ==
  /\ pc = "session_init"
  /\ widgets = [ w \in KeyFields \cup TextAreas |-> <<>> ]
  /\ rendered = {}
  /\ clicked = NoValue
  /\ session_state = Empty
  /\ environ = None
  /\ composio_toolset = None
  /\ requested = <<>>
  /\ create_tools = <<>>
  /\ update_tools = <<>>
  /\ google_docs_tool = NoValue
  /\ google_docs_tool_update = NoValue
  /\ agents = Empty
  /\ inflight = None
  /\ response = None
  /\ raised = None
  /\ ui = <<>>
  /\ terminal = <<>>
  /\ log = <<>>
  /\ action_no = 0
  /\ validated = [ passed |-> 0, failed |-> 0 ]

\* The application makes no use of the library classes modelled below.
Init == ScriptStart /\ LibraryUnused

\* ------------------------------------------------------------- user events
\* The user commits a new value in a sidebar key field or a drawn text area;
\* the script is run again with no button pressed.
UserEdit ==
  /\ pc = "idle"
  /\ \E w \in KeyFields \cup (TextAreas \cap rendered) :
       \E t \in (IF w \in KeyFields THEN KeyTexts ELSE InputTexts) :
         /\ t # widgets[w]
         /\ widgets' = [ widgets EXCEPT ![w] = t ]
  /\ clicked' = NoValue
  /\ FreshRun
  /\ UNCHANGED << library, session_state, environ, inflight, history >>

\* A button press that is also taken while an agent is being called.
UserClick_WhileRunning ==
  /\ pc \in { "idle", "call" }
  /\ action_no < MaxActions
  /\ \E b \in Buttons \cap rendered : clicked' = b
  /\ action_no' = action_no + 1
  /\ FreshRun
  /\ UNCHANGED << library, widgets, session_state, environ, inflight, log, validated >>

\* The user presses one of the buttons drawn on the page.
UserClick ==
  /\ pc = "idle"
  /\ action_no < MaxActions
  /\ \E b \in Buttons \cap rendered : clicked' = b
  /\ action_no' = action_no + 1
  /\ FreshRun
  /\ UNCHANGED << library, widgets, session_state, environ, inflight, log, validated >>

\* ------------------------------------------------------------ the script
\* Initialize Session State: keys that are missing get the empty string.
InitializeSessionState ==
  /\ pc = "session_init"
  /\ session_state' = [ k \in SessionKeys |->
                          IF k \in DOMAIN session_state THEN session_state[k]
                          ELSE <<>> ]
  /\ pc' = "sidebar"
  /\ UNCHANGED << library, page, environ, namespace, inflight, output, history >>

\* Sidebar for API Keys: both keys are read from the fields and stripped.
Sidebar ==
  /\ pc = "sidebar"
  /\ session_state' =
       [ session_state EXCEPT
           !["openai_api_key"] = strip(widgets["Enter your OpenAI API Key"]),
           !["composio_api_key"] = strip(widgets["Enter your Composio API Key"]) ]
  /\ pc' = "check_keys"
  /\ UNCHANGED << library, page, environ, namespace, inflight, output, history >>

\* A key test that asks for both keys to be missing.
KeysMissing_Both(ss) ==
  ~Truthy(ss["openai_api_key"]) /\ ~Truthy(ss["composio_api_key"])

\* The test of "Check API Keys".
KeysMissing(ss) ==
  ~Truthy(ss["openai_api_key"]) \/ ~Truthy(ss["composio_api_key"])

\* Check API Keys, then set the environment variable for OpenAI.
CheckAPIKeys ==
  /\ pc = "check_keys"
  /\ IF KeysMissing(session_state)
     THEN /\ ui' = Append(ui, Element("error",
                     <<"Please enter your OpenAI and Composio API keys.">>))
          /\ Stop
          /\ UNCHANGED environ
     ELSE /\ environ' = Some(session_state["openai_api_key"])
          /\ pc' = "init_tools"
          /\ UNCHANGED ui
  /\ UNCHANGED << library, page, session_state, namespace, inflight, terminal, history >>

\* Exceptions the tool integration can raise.
ToolErrors == { "ComposioClientError" }

\* An except branch that reports the error and lets the script go on.
ToolsFailed_Continue(e) ==
  /\ ui' = Append(ui, Element("error",
              <<"Error initializing Composio tools:", " ", e>>))
  /\ pc' = "agents"

\* The except branch of "Initialize Composio Tools".
ToolsFailed(e) ==
  /\ ui' = Append(ui, Element("error",
              <<"Error initializing Composio tools:", " ", e>>))
  /\ Stop

\* Initialize Composio Tools: the tool set is created, both tool lists are
\* requested, and the run stops unless both lists have a first element.
InitializeComposioTools ==
  /\ pc = "init_tools"
  /\ \/ \E e \in ToolErrors :                \* ComposioToolSet(...) raises
          /\ ToolsFailed(e)
          /\ UNCHANGED << composio_toolset, requested, create_tools,
                          update_tools, google_docs_tool,
                          google_docs_tool_update >>
     \/ \E e \in ToolErrors :                \* the first get_tools raises
          /\ composio_toolset' = Some(ComposioToolSet(session_state["composio_api_key"]))
          /\ requested' = << GOOGLEDOCS_CREATE_DOCUMENT >>
          /\ ToolsFailed(e)
          /\ UNCHANGED << create_tools, update_tools, google_docs_tool,
                          google_docs_tool_update >>
     \/ \E e \in ToolErrors, ct \in ToolLists(GOOGLEDOCS_CREATE_DOCUMENT) :
          /\ composio_toolset' = Some(ComposioToolSet(session_state["composio_api_key"]))
          /\ requested' = << GOOGLEDOCS_CREATE_DOCUMENT,
                             GOOGLEDOCS_UPDATE_EXISTING_DOCUMENT >>
          /\ create_tools' = ct              \* the second get_tools raises
          /\ ToolsFailed(e)
          /\ UNCHANGED << update_tools, google_docs_tool,
                          google_docs_tool_update >>
     \/ \E ct \in ToolLists(GOOGLEDOCS_CREATE_DOCUMENT),
           ut \in ToolLists(GOOGLEDOCS_UPDATE_EXISTING_DOCUMENT) :
          /\ composio_toolset' = Some(ComposioToolSet(session_state["composio_api_key"]))
          /\ requested' = << GOOGLEDOCS_CREATE_DOCUMENT,
                             GOOGLEDOCS_UPDATE_EXISTING_DOCUMENT >>
          /\ create_tools' = ct
          /\ update_tools' = ut
          /\ IF ~Truthy(ct)
             THEN /\ ui' = Append(ui, Element("error",
                     <<"Could not find the Google Docs Create Document tool. Check if Google Docs is connected in Composio.">>))
                  /\ Stop
                  /\ UNCHANGED << google_docs_tool, google_docs_tool_update >>
             ELSE IF ~Truthy(ut)
             THEN /\ ui' = Append(ui, Element("error",
                     <<"Could not find the Google Docs Update Document tool. Check if Google Docs is connected in Composio.">>))
                  /\ Stop
                  /\ UNCHANGED << google_docs_tool, google_docs_tool_update >>
             ELSE /\ google_docs_tool' = ct[1]
                  /\ google_docs_tool_update' = ut[1]
                  /\ pc' = "agents"
                  /\ UNCHANGED ui
  /\ UNCHANGED << library, page, session_state, environ, agents, response, raised,
                  inflight, terminal, history >>

\* The four Agent(...) statements.
ConstructAgents ==
  /\ pc = "agents"
  /\ agents' = AgentDefinitions(session_state["openai_api_key"], google_docs_tool)
  /\ pc' = "daily_tab"
  /\ UNCHANGED << library, page, session_state, environ, composio_toolset, requested,
                  create_tools, update_tools, google_docs_tool,
                  google_docs_tool_update, response, raised, inflight, output,
                  history >>

\* A daily tab that stores the text stripped of surrounding white space.
DailyTab_Stripped ==
  /\ pc = "daily_tab"
  /\ rendered' = rendered \cup { DailyArea }
  /\ session_state' =
       [ session_state EXCEPT !["daily_input"] = strip(widgets[DailyArea]) ]
  /\ pc' = "daily_button"
  /\ UNCHANGED << library, widgets, clicked, environ, namespace, inflight, output, history >>

\* with tab1: the daily text area is drawn and its value stored.
DailyTab ==
  /\ pc = "daily_tab"
  /\ rendered' = rendered \cup { DailyArea }
  /\ session_state' = [ session_state EXCEPT !["daily_input"] = widgets[DailyArea] ]
  /\ pc' = "daily_button"
  /\ UNCHANGED << library, widgets, clicked, environ, namespace, inflight, output, history >>

\* with tab2: the weekly text area is drawn and its value stored.
WeeklyTab ==
  /\ pc = "weekly_tab"
  /\ rendered' = rendered \cup { WeeklyArea }
  /\ session_state' = [ session_state EXCEPT !["weekly_summary"] = widgets[WeeklyArea] ]
  /\ pc' = "weekly_button"
  /\ UNCHANGED << library, widgets, clicked, environ, namespace, inflight, output, history >>

\* ---------------------------------------------------------- the handlers
\* st.button(label): the button is drawn; it is true in the run its press
\* started.
Pressed(b) == clicked = b

\* if st.button(...) is false: the handler body is skipped.
Skip(b, next) ==
  /\ ~Pressed(b)
  /\ rendered' = rendered \cup {b}
  /\ pc' = next
  /\ UNCHANGED << library, widgets, clicked, session_state, environ, namespace,
                  inflight, output, history >>

\* The branch of a handler whose input is empty: st.error(message).
Reject(b, message, next) ==
  /\ rendered' = rendered \cup {b}
  /\ ui' = Append(ui, Element("error", <<message>>))
  /\ validated' = [ validated EXCEPT !.failed = @ + 1 ]
  /\ pc' = next
  /\ UNCHANGED << library, widgets, clicked, session_state, environ, namespace,
                  inflight, terminal, log, action_no >>

\* An invocation that also appends the message to the agent's instructions.
Run_Remember(b, agent, message) ==
  /\ rendered' = rendered \cup {b}
  /\ inflight' = Some([ handler |-> b, agent |-> agent, message |-> message ])
  /\ log' = Append(log, [ agent |-> agent, name |-> agents[agent].name,
                          message |-> message, action |-> action_no ])
  /\ agents' = [ agents EXCEPT
                   ![agent].instructions = Append(@, "Earlier input follows.") ]
  /\ pc' = "call"
  /\ UNCHANGED << library, widgets, clicked, session_state, environ, composio_toolset,
                  requested, create_tools, update_tools, google_docs_tool,
                  google_docs_tool_update, response, raised, output,
                  action_no >>

\* An invocation that is left out when the same agent was already sent the
\* same message.
Run_Cached(b, agent, message) ==
  /\ rendered' = rendered \cup {b}
  /\ IF \E i \in 1..Len(log) : log[i].agent = agent /\ log[i].message = message
     THEN /\ pc' = "idle"
          /\ UNCHANGED << inflight, log >>
     ELSE /\ inflight' = Some([ handler |-> b, agent |-> agent,
                                message |-> message ])
          /\ log' = Append(log, [ agent |-> agent, name |-> agents[agent].name,
                                  message |-> message, action |-> action_no ])
          /\ pc' = "call"
  /\ UNCHANGED << library, widgets, clicked, session_state, environ, namespace,
                  output, action_no >>

\* agent.run(message, stream=False) is entered; the run blocks in it.
Run(b, agent, message) ==
  /\ rendered' = rendered \cup {b}
  /\ inflight' = Some([ handler |-> b, agent |-> agent, message |-> message ])
  /\ log' = Append(log, [ agent |-> agent, name |-> agents[agent].name,
                          message |-> message, action |-> action_no ])
  /\ pc' = "call"
  /\ UNCHANGED << library, widgets, clicked, session_state, environ, namespace,
                  output, action_no >>

\* A return path that shows the content stripped of surrounding white space.
Returned_Stripped(b, success, next) ==
  /\ pc = "call"
  /\ inflight # None
  /\ inflight[1].handler = b
  /\ \E c \in Contents :
       /\ response' = Some([ content |-> c ])
       /\ ui' = ui \o << Element("success", <<success>>),
                         Element("markdown", <<"### Google Doc Link:">>),
                         Element("markdown", strip(c)) >>
       /\ terminal' = Append(terminal, c)
  /\ inflight' = None
  /\ pc' = next
  /\ UNCHANGED << library, page, session_state, environ, composio_toolset, requested,
                  create_tools, update_tools, google_docs_tool,
                  google_docs_tool_update, agents, raised, history >>

\* A return path that empties the daily text once it has been answered.
Returned_ClearInput(b, success, next) ==
  /\ pc = "call"
  /\ inflight # None
  /\ inflight[1].handler = b
  /\ \E c \in Contents :
       /\ response' = Some([ content |-> c ])
       /\ ui' = ui \o << Element("success", <<success>>),
                         Element("markdown", <<"### Google Doc Link:">>),
                         Element("markdown", c) >>
       /\ terminal' = Append(terminal, c)
  /\ session_state' = [ session_state EXCEPT !["daily_input"] = <<>> ]
  /\ inflight' = None
  /\ pc' = next
  /\ UNCHANGED << library, page, environ, composio_toolset, requested,
                  create_tools, update_tools, google_docs_tool,
                  google_docs_tool_update, agents, raised, history >>

\* A return path that refuses a content without a document link.
Returned_RequireLink(b, success, next) ==
  /\ pc = "call"
  /\ inflight # None
  /\ inflight[1].handler = b
  /\ \E c \in Contents :
       /\ response' = Some([ content |-> c ])
       /\ IF \E k \in 1..Len(c) : c[k] = "https://docs.example/abc"
          THEN ui' = ui \o << Element("success", <<success>>),
                              Element("markdown", <<"### Google Doc Link:">>),
                              Element("markdown", c) >>
          ELSE ui' = Append(ui, Element("error", <<"No document link.">>))
       /\ terminal' = Append(terminal, c)
  /\ inflight' = None
  /\ pc' = next
  /\ UNCHANGED << library, page, session_state, environ, composio_toolset, requested,
                  create_tools, update_tools, google_docs_tool,
                  google_docs_tool_update, agents, raised, history >>

\* agent.run returns a RunResponse: success message, heading, the content,
\* and the response printed on the terminal.
Returned(b, success, next) ==
  /\ pc = "call"
  /\ inflight # None
  /\ inflight[1].handler = b
  /\ \E c \in Contents :
       /\ response' = Some([ content |-> c ])
       /\ ui' = ui \o << Element("success", <<success>>),
                         Element("markdown", <<"### Google Doc Link:">>),
                         Element("markdown", c) >>
       /\ terminal' = Append(terminal, c)
  /\ inflight' = None
  /\ pc' = next
  /\ UNCHANGED << library, page, session_state, environ, composio_toolset, requested,
                  create_tools, update_tools, google_docs_tool,
                  google_docs_tool_update, agents, raised, history >>

\* A way out of the call after a time limit: the handler gives up waiting
\* and reports it, and the agent has neither answered nor raised.
Raised_Timeout(b) ==
  /\ pc = "call"
  /\ inflight # None
  /\ inflight[1].handler = b
  /\ ui' = Append(ui, Element("error", <<"The agent did not answer in time.">>))
  /\ inflight' = None
  /\ pc' = "idle"
  /\ UNCHANGED << library, page, session_state, environ, namespace, terminal,
                  history >>

\* A failure path that invokes the agent again with the same message.
Raised_Retry(b) ==
  /\ pc = "call"
  /\ inflight # None
  /\ inflight[1].handler = b
  /\ Len(log) < MaxActions + 1
  /\ log' = Append(log, log[Len(log)])
  /\ UNCHANGED << library, pc, page, session_state, environ, namespace, inflight,
                  output, action_no, validated >>

\* A failure path that hides the exception and reports success.
Raised_Swallowed(b) ==
  /\ pc = "call"
  /\ inflight # None
  /\ inflight[1].handler = b
  /\ \E e \in Errors : raised' = Some(e)
  /\ ui' = Append(ui, Element("success", <<"done">>))
  /\ inflight' = None
  /\ pc' = "idle"
  /\ UNCHANGED << library, page, session_state, environ, composio_toolset, requested,
                  create_tools, update_tools, google_docs_tool,
                  google_docs_tool_update, agents, response, terminal,
                  history >>

\* agent.run raises: nothing in the script catches it, the run ends and the
\* exception is what the page shows.
Raised(b) ==
  /\ pc = "call"
  /\ inflight # None
  /\ inflight[1].handler = b
  /\ \E e \in Errors :
       /\ raised' = Some(e)
       /\ ui' = Append(ui, Element("exception", <<e>>))
  /\ inflight' = None
  /\ pc' = "idle"
  /\ UNCHANGED << library, page, session_state, environ, composio_toolset, requested,
                  create_tools, update_tools, google_docs_tool,
                  google_docs_tool_update, agents, response, terminal,
                  history >>

\* The handler goes on to its agent: its input check, if any, passed.
Passed == validated' = [ validated EXCEPT !.passed = @ + 1 ]

\* The daily coach handler checking the weekly summary in place of the daily
\* text.
RunDailyLanguageCoach_WeeklyChecked ==
  \/ /\ pc = "daily_button"
     /\ \/ Skip("Run Daily Language Coach", "assessor_button")
        \/ /\ Pressed("Run Daily Language Coach")
           /\ IF ~Truthy(session_state["weekly_summary"])
              THEN Reject("Run Daily Language Coach",
                          "Please enter your daily input first.",
                          "assessor_button")
              ELSE /\ Passed
                   /\ Run("Run Daily Language Coach", "daily_coach_agent",
                          session_state["daily_input"])
  \/ Returned("Run Daily Language Coach", "Feedback generated!",
              "assessor_button")
  \/ Raised("Run Daily Language Coach")

\* if st.button("Run Daily Language Coach"): ...
RunDailyLanguageCoach ==
  \/ /\ pc = "daily_button"
     /\ \/ Skip("Run Daily Language Coach", "assessor_button")
        \/ /\ Pressed("Run Daily Language Coach")
           /\ IF ~Truthy(session_state["daily_input"])
              THEN Reject("Run Daily Language Coach",
                          "Please enter your daily input first.",
                          "assessor_button")
              ELSE /\ Passed
                   /\ Run("Run Daily Language Coach", "daily_coach_agent",
                          session_state["daily_input"])
  \/ Returned("Run Daily Language Coach", "Feedback generated!",
              "assessor_button")
  \/ Raised("Run Daily Language Coach")

\* The assessor handler calling the daily coach agent.
RunLanguageAssessor_Misrouted ==
  \/ /\ pc = "assessor_button"
     /\ \/ Skip("Run Language Assessor", "conversation_button")
        \/ /\ Pressed("Run Language Assessor")
           /\ IF ~Truthy(session_state["daily_input"])
              THEN Reject("Run Language Assessor",
                          "Please enter your daily input first.",
                          "conversation_button")
              ELSE /\ Passed
                   /\ Run("Run Language Assessor", "daily_coach_agent",
                          session_state["daily_input"])
  \/ Returned("Run Language Assessor", "Assessment complete!",
              "conversation_button")
  \/ Raised("Run Language Assessor")

\* if st.button("Run Language Assessor"): ...
RunLanguageAssessor ==
  \/ /\ pc = "assessor_button"
     /\ \/ Skip("Run Language Assessor", "conversation_button")
        \/ /\ Pressed("Run Language Assessor")
           /\ IF ~Truthy(session_state["daily_input"])
              THEN Reject("Run Language Assessor",
                          "Please enter your daily input first.",
                          "conversation_button")
              ELSE /\ Passed
                   /\ Run("Run Language Assessor", "language_assessor_agent",
                          session_state["daily_input"])
  \/ Returned("Run Language Assessor", "Assessment complete!",
              "conversation_button")
  \/ Raised("Run Language Assessor")

\* The conversation handler appending the daily text to its prompt.
PracticeDutchConversation_DailyText ==
  \/ /\ pc = "conversation_button"
     /\ \/ Skip("Practice Dutch Conversation", "weekly_tab")
        \/ /\ Pressed("Practice Dutch Conversation")
           /\ Passed
           /\ Run("Practice Dutch Conversation", "virtual_partner_agent",
                  ConversationPrompt \o session_state["daily_input"])
  \/ Returned("Practice Dutch Conversation", "Conversation complete!",
              "weekly_tab")
  \/ Raised("Practice Dutch Conversation")

\* The conversation handler with the input check of its two neighbours.
PracticeDutchConversation_Checked ==
  \/ /\ pc = "conversation_button"
     /\ \/ Skip("Practice Dutch Conversation", "weekly_tab")
        \/ /\ Pressed("Practice Dutch Conversation")
           /\ IF ~Truthy(session_state["daily_input"])
              THEN Reject("Practice Dutch Conversation",
                          "Please enter your daily input first.", "weekly_tab")
              ELSE /\ Passed
                   /\ Run("Practice Dutch Conversation",
                          "virtual_partner_agent", ConversationPrompt)
  \/ Returned("Practice Dutch Conversation", "Conversation complete!",
              "weekly_tab")
  \/ Raised("Practice Dutch Conversation")

\* if st.button("Practice Dutch Conversation"): ...
PracticeDutchConversation ==
  \/ /\ pc = "conversation_button"
     /\ \/ Skip("Practice Dutch Conversation", "weekly_tab")
        \/ /\ Pressed("Practice Dutch Conversation")
           /\ Passed
           /\ Run("Practice Dutch Conversation", "virtual_partner_agent",
                  ConversationPrompt)
  \/ Returned("Practice Dutch Conversation", "Conversation complete!",
              "weekly_tab")
  \/ Raised("Practice Dutch Conversation")

\* The weekly handler without its input check.
GenerateWeeklyPlan_Unchecked ==
  \/ /\ pc = "weekly_button"
     /\ \/ Skip("Generate Weekly Plan", "idle")
        \/ /\ Pressed("Generate Weekly Plan")
           /\ Passed
           /\ Run("Generate Weekly Plan", "weekly_planner_agent",
                  session_state["weekly_summary"])
  \/ Returned("Generate Weekly Plan", "Weekly plan created!", "idle")
  \/ Raised("Generate Weekly Plan")

\* if st.button("Generate Weekly Plan"): ...
GenerateWeeklyPlan ==
  \/ /\ pc = "weekly_button"
     /\ \/ Skip("Generate Weekly Plan", "idle")
        \/ /\ Pressed("Generate Weekly Plan")
           /\ IF ~Truthy(session_state["weekly_summary"])
              THEN Reject("Generate Weekly Plan",
                          "Please enter your weekly summary first.", "idle")
              ELSE /\ Passed
                   /\ Run("Generate Weekly Plan", "weekly_planner_agent",
                          session_state["weekly_summary"])
  \/ Returned("Generate Weekly Plan", "Weekly plan created!", "idle")
  \/ Raised("Generate Weekly Plan")

Next ==
  \/ UserEdit
  \/ UserClick
  \/ InitializeSessionState
  \/ Sidebar
  \/ CheckAPIKeys
  \/ InitializeComposioTools
  \/ ConstructAgents
  \/ DailyTab
  \/ RunDailyLanguageCoach
  \/ RunLanguageAssessor
  \/ PracticeDutchConversation
  \/ WeeklyTab
  \/ GenerateWeeklyPlan

Spec == Init /\ [][Next]_vars

\* The same program with fewer button presses.
LiveNext ==
  \/ UserEdit
  \/ action_no < MaxLiveActions /\ UserClick
  \/ InitializeSessionState
  \/ Sidebar
  \/ CheckAPIKeys
  \/ InitializeComposioTools
  \/ ConstructAgents
  \/ DailyTab
  \/ RunDailyLanguageCoach
  \/ RunLanguageAssessor
  \/ PracticeDutchConversation
  \/ WeeklyTab
  \/ GenerateWeeklyPlan

\* A step of the script itself: the interpreter executes the next statement.
\* Not a user event, and not the agent's answer or failure.
ScriptStep == pc \notin { "idle", "call" } /\ LiveNext

\* The script thread keeps running its statements; nothing makes the user act
\* or the agent come back.
FairSpec == Init /\ [][LiveNext]_vars /\ WF_vars(ScriptStep)

\* =========================================================== WebsiteReader
\* Number of crawl and async_crawl calls made on one reader.
MaxCrawls == 2

\* Number of calls made on one reader where termination is checked.
MaxLiveCrawls == 1

\* The URLs of the model: the start page, a page of the same host, a page of a
\* subdomain, a file that is never crawled and a page of another domain.
Root == "https://a.b/"
PageP == "https://a.b/p"
PageW == "https://w.a.b/q"
FilePdf == "https://a.b/f.pdf"
Offsite == "https://c.d/"

\* urlparse(url): the network location and the path, as characters.
urlparse(url) ==
  CASE url = Root    -> [ netloc |-> << "a", ".", "b" >>, path |-> << "/" >> ]
    [] url = PageP   -> [ netloc |-> << "a", ".", "b" >>, path |-> << "/", "p" >> ]
    [] url = PageW   -> [ netloc |-> << "w", ".", "a", ".", "b" >>,
                          path |-> << "/", "q" >> ]
    [] url = FilePdf -> [ netloc |-> << "a", ".", "b" >>,
                          path |-> << "/", "f", ".", "p", "d", "f" >> ]
    [] url = Offsite -> [ netloc |-> << "c", ".", "d" >>, path |-> << "/" >> ]

\* str.split(sep)
RECURSIVE split(_, _)
split(s, sep) ==
  IF \E i \in 1..Len(s) : s[i] = sep
  THEN LET i == CHOOSE k \in 1..Len(s) :
                  s[k] = sep /\ \A j \in 1..(k - 1) : s[j] # sep
       IN << SubSeq(s, 1, i - 1) >> \o split(SubSeq(s, i + 1, Len(s)), sep)
  ELSE << s >>

\* sep.join(parts)
RECURSIVE join(_, _)
join(parts, sep) ==
  IF parts = <<>> THEN <<>>
  ELSE IF Len(parts) = 1 THEN parts[1]
  ELSE parts[1] \o << sep >> \o join(Tail(parts), sep)

\* str.endswith(suffix)
endswith(s, suffix) ==
  /\ Len(suffix) <= Len(s)
  /\ SubSeq(s, Len(s) - Len(suffix) + 1, Len(s)) = suffix

\* The last two labels of the network location.
get_primary_domain(url) ==
  LET domain_parts == split(urlparse(url).netloc, ".")
  IN join(SubSeq(domain_parts,
                 IF Len(domain_parts) > 2 THEN Len(domain_parts) - 1 ELSE 1,
                 Len(domain_parts)), ".")

\* File extensions whose links are not followed.
SkippedExtensions ==
  { << ".", "p", "d", "f" >>, << ".", "j", "p", "g" >>, << ".", "p", "n", "g" >> }

\* The pages a GET can be sent to, and the lists of links a page can hold:
\* none, back to the start and on, to the subdomain with a file and a foreign
\* link, and twice to the same page.
Fetchable == { Root, PageP, PageW }
LinkLists == { <<>>, << Root, PageP >>, << PageW, FilePdf, Offsite >>,
               << PageP, PageW, PageP >> }

\* What a GET answers: an error (raise_for_status raises), or a page with its
\* main content, possibly empty, and its links.
Responses ==
  { [ status |-> "error", content |-> <<>>, links |-> <<>> ] } \cup
  { [ status |-> "ok", content |-> c, links |-> l ] :
      c \in { <<>>, << "text" >> }, l \in LinkLists }

Sites == [ Fetchable -> Responses ]

\* Values of max_depth, max_links and starting_depth.
DepthLimits == { 1, 2 }
LinkLimits == { 0, 1, 2 }
StartingDepths == { 1, 2 }

\* dict[key] = value
Put(dict, key, value) ==
  [ k \in DOMAIN dict \cup { key } |-> IF k = key THEN value ELSE dict[k] ]

\* The variables a crawl leaves alone.
beside_reader == << script, search_index, chunker, store >>

\* WebsiteReader(max_depth, max_links) in front of some web site.
CrawlInit ==
  /\ ScriptStart
  /\ site \in Sites
  /\ max_depth \in DepthLimits
  /\ max_links \in LinkLimits
  /\ visited = {}
  /\ urls_to_crawl = <<>>
  /\ num_links = 0
  /\ crawler_result = Empty
  /\ primary_domain = <<>>
  /\ crawl_pc = "ready"
  /\ crawl_call = <<>>
  /\ fetched = <<>>
  /\ returned = <<>>
  /\ SearchIndexUnused
  /\ ChunkerUnused
  /\ StoreUnused

\* crawl(url, starting_depth) up to its loop.
CrawlStart(url, starting_depth) ==
  /\ crawl_pc = "ready"
  /\ num_links' = 0
  /\ crawler_result' = Empty
  /\ primary_domain' = get_primary_domain(url)
  /\ urls_to_crawl' = Append(urls_to_crawl, << url, starting_depth >>)
  /\ crawl_pc' = "crawl"
  /\ crawl_call' = << url, starting_depth >>
  /\ fetched' = <<>>
  /\ UNCHANGED << site, max_depth, max_links, visited, returned, beside_reader >>

\* async_crawl(url, starting_depth) up to its loop.
AsyncCrawlStart(url, starting_depth) ==
  /\ crawl_pc = "ready"
  /\ num_links' = 0
  /\ crawler_result' = Empty
  /\ primary_domain' = get_primary_domain(url)
  /\ visited' = {}
  /\ urls_to_crawl' = << << url, starting_depth >> >>
  /\ crawl_pc' = "async_crawl"
  /\ crawl_call' = << url, starting_depth >>
  /\ fetched' = <<>>
  /\ UNCHANGED << site, max_depth, max_links, returned, beside_reader >>

\* A reader that passes over no URL for its depth.
Skipped_NoDepth(current_url, current_depth) ==
  \/ current_url \in visited
  \/ ~endswith(urlparse(current_url).netloc, primary_domain)
  \/ num_links >= max_links

\* A reader that passes over no URL for the number of pages collected.
Skipped_NoBudget(current_url, current_depth) ==
  \/ current_url \in visited
  \/ ~endswith(urlparse(current_url).netloc, primary_domain)
  \/ current_depth > max_depth

\* The condition under which a URL taken from the list is passed over.
Skipped(current_url, current_depth) ==
  \/ current_url \in visited
  \/ ~endswith(urlparse(current_url).netloc, primary_domain)
  \/ current_depth > max_depth
  \/ num_links >= max_links

\* for link in soup.find_all("a", href=True): the links of a page are added to
\* the list with the depth below the page's.
RECURSIVE add_links(_, _, _, _)
add_links(queue, links, depth, seen) ==
  IF links = <<>> THEN queue
  ELSE LET full_url == Head(links)
           parsed_url == urlparse(full_url)
           wanted ==
             /\ endswith(parsed_url.netloc, primary_domain)
             /\ ~\E ext \in SkippedExtensions : endswith(parsed_url.path, ext)
             /\ full_url \notin seen
             /\ ~\E i \in 1..Len(queue) : queue[i] = << full_url, depth >>
       IN add_links(IF wanted THEN Append(queue, << full_url, depth >>)
                    ELSE queue,
                    Tail(links), depth, seen)

\* A loop body that does not mark the URL it fetches as visited.
Iteration_NotMarked ==
  LET current_url == urls_to_crawl[1][1]
      current_depth == urls_to_crawl[1][2]
      rest == Tail(urls_to_crawl)
      answer == site[current_url]
  IN IF Skipped(current_url, current_depth)
     THEN /\ urls_to_crawl' = rest
          /\ UNCHANGED << visited, num_links, crawler_result, fetched >>
     ELSE /\ visited' = visited
          /\ fetched' = Append(fetched, [ url |-> current_url,
                                          depth |-> current_depth,
                                          collected |-> num_links ])
          /\ IF answer.status = "error"
             THEN /\ urls_to_crawl' = rest
                  /\ UNCHANGED << num_links, crawler_result >>
             ELSE /\ IF Truthy(answer.content)
                     THEN /\ crawler_result' =
                               Put(crawler_result, current_url, answer.content)
                          /\ num_links' = num_links + 1
                     ELSE UNCHANGED << num_links, crawler_result >>
                  /\ urls_to_crawl' =
                       add_links(rest, answer.links, current_depth + 1, visited)

\* One pass of the loop body: a URL is taken from the front of the list and
\* passed over, or marked visited and fetched.  The body of async_crawl's
\* loop is the same statements.
Iteration ==
  LET current_url == urls_to_crawl[1][1]
      current_depth == urls_to_crawl[1][2]
      rest == Tail(urls_to_crawl)
      answer == site[current_url]
  IN IF Skipped(current_url, current_depth)
     THEN /\ urls_to_crawl' = rest
          /\ UNCHANGED << visited, num_links, crawler_result, fetched >>
     ELSE /\ visited' = visited \cup { current_url }
          /\ fetched' = Append(fetched, [ url |-> current_url,
                                          depth |-> current_depth,
                                          collected |-> num_links ])
          /\ IF answer.status = "error"
             THEN /\ urls_to_crawl' = rest
                  /\ UNCHANGED << num_links, crawler_result >>
             ELSE /\ IF Truthy(answer.content)
                     THEN /\ crawler_result' =
                               Put(crawler_result, current_url, answer.content)
                          /\ num_links' = num_links + 1
                     ELSE UNCHANGED << num_links, crawler_result >>
                  /\ urls_to_crawl' =
                       add_links(rest, answer.links, current_depth + 1,
                                 visited \cup { current_url })

\* while self._urls_to_crawl: one pass of crawl's loop.
CrawlIteration ==
  /\ crawl_pc = "crawl"
  /\ urls_to_crawl # <<>>
  /\ Iteration
  /\ UNCHANGED << site, max_depth, max_links, primary_domain, crawl_pc,
                  crawl_call, returned, beside_reader >>

\* while self._urls_to_crawl and num_links < self.max_links: one pass of
\* async_crawl's loop.
AsyncCrawlIteration ==
  /\ crawl_pc = "async_crawl"
  /\ urls_to_crawl # <<>>
  /\ num_links < max_links
  /\ Iteration
  /\ UNCHANGED << site, max_depth, max_links, primary_domain, crawl_pc,
                  crawl_call, returned, beside_reader >>

\* The call returns crawler_result.
Return(method) ==
  /\ returned' = Append(returned, [ method |-> method, url |-> crawl_call[1],
                                    starting_depth |-> crawl_call[2],
                                    result |-> crawler_result,
                                    fetched |-> fetched ])
  /\ crawl_pc' = "ready"
  /\ UNCHANGED << site, max_depth, max_links, visited, urls_to_crawl,
                  num_links, crawler_result, primary_domain, crawl_call,
                  fetched, beside_reader >>

\* crawl's loop ends and it returns.
CrawlReturn ==
  /\ crawl_pc = "crawl"
  /\ urls_to_crawl = <<>>
  /\ Return("crawl")

\* async_crawl's loop ends and it returns.
AsyncCrawlReturn ==
  /\ crawl_pc = "async_crawl"
  /\ ~(urls_to_crawl # <<>> /\ num_links < max_links)
  /\ Return("async_crawl")

\* A statement of a running call.
CrawlStep ==
  \/ CrawlIteration
  \/ CrawlReturn
  \/ AsyncCrawlIteration
  \/ AsyncCrawlReturn

CrawlNext ==
  \/ \E d \in StartingDepths :
       Len(returned) < MaxCrawls /\ CrawlStart(Root, d)
  \/ \E d \in StartingDepths :
       Len(returned) < MaxCrawls /\ AsyncCrawlStart(Root, d)
  \/ CrawlIteration
  \/ CrawlReturn
  \/ AsyncCrawlIteration
  \/ AsyncCrawlReturn

CrawlSpec == CrawlInit /\ [][CrawlNext]_vars

\* The same reader with fewer calls; a call that has started keeps running.
CrawlLiveNext ==
  \/ \E d \in StartingDepths :
       Len(returned) < MaxLiveCrawls /\ CrawlStart(Root, d)
  \/ \E d \in StartingDepths :
       Len(returned) < MaxLiveCrawls /\ AsyncCrawlStart(Root, d)
  \/ CrawlIteration
  \/ CrawlReturn
  \/ AsyncCrawlIteration
  \/ AsyncCrawlReturn

CrawlFairSpec == CrawlInit /\ [][CrawlLiveNext]_vars /\ WF_vars(CrawlStep)

\* ================================================== MongoDb, search index
\* Seconds of sleeping in _wait_for_index_ready that are followed.
MaxElapsed == 3

\* max_retries of _create_search_index.
max_retries == 3

\* Values of wait_until_index_ready: not given, or a number of seconds.
WaitSettings == { 0, 1, 2 }

\* An exception: its class and the phrases its message contains.
OperationFailure(phrases) == [ type |-> "OperationFailure", message |-> phrases ]
ConnectionFailure == [ type |-> "ConnectionFailure", message |-> {} ]

\* The exceptions a call to the server can raise.
Failures ==
  { OperationFailure({ "Duplicate Index" }),
    OperationFailure({ "Index already requested to be deleted" }),
    OperationFailure({ "Duplicate Index",
                       "Index already requested to be deleted" }),
    OperationFailure({}),
    ConnectionFailure }

\* What list_search_indexes can do: list the index, not list it, or raise.
ListOutcomes == { "listed", "absent", "error" }

\* _search_index_exists(): an exception counts as "no".
search_index_exists(outcome) == outcome = "listed"

\* The variables _create_search_index leaves alone.
beside_search_index == << script, reader, chunker, store >>

\* MongoDb(..., wait_until_index_ready=...), before _create_search_index.
IndexInit ==
  /\ ScriptStart
  /\ ReaderUnused
  /\ ChunkerUnused
  /\ StoreUnused
  /\ wait_until_index_ready \in WaitSettings
  /\ overwrite = FALSE
  /\ index_pc = "ready"
  /\ attempt = 0
  /\ retries = 0
  /\ creates = <<>>
  /\ retried = <<>>
  /\ index_error = None
  /\ elapsed = 0

\* _create_search_index(overwrite) is called: for attempt in range(max_retries).
CreateSearchIndex(ow) ==
  /\ index_pc = "ready"
  /\ overwrite' = ow
  /\ attempt' = 0
  /\ index_pc' = "attempt"
  /\ UNCHANGED << wait_until_index_ready, retries, creates, retried,
                  index_error, elapsed, beside_search_index >>

\* The handlers that retry any OperationFailure.
Failed_AnyFailure(e) ==
  IF e.type = "OperationFailure" /\ attempt < max_retries - 1
  THEN /\ retried' = Append(retried, e)
       /\ attempt' = attempt + 1
       /\ index_pc' = "attempt"
       /\ UNCHANGED index_error
  ELSE /\ index_error' = Some(e)
       /\ index_pc' = "raised"
       /\ UNCHANGED << attempt, retried >>

\* except errors.OperationFailure / except Exception of the attempt: the next
\* attempt, or the exception is raised.
Failed(e) ==
  IF /\ e.type = "OperationFailure"
     /\ "Duplicate Index" \in e.message
     /\ attempt < max_retries - 1
  THEN /\ retried' = Append(retried, e)
       /\ attempt' = attempt + 1
       /\ index_pc' = "attempt"
       /\ UNCHANGED index_error
  ELSE /\ index_error' = Some(e)
       /\ index_pc' = "raised"
       /\ UNCHANGED << attempt, retried >>

\* if overwrite and self._search_index_exists(): ...
AttemptBegin ==
  /\ index_pc = "attempt"
  /\ attempt < max_retries
  /\ \E o \in ListOutcomes :
       IF overwrite /\ search_index_exists(o)
       THEN index_pc' = "drop" /\ UNCHANGED retries
       ELSE index_pc' = "verify" /\ retries' = 3
  /\ UNCHANGED << wait_until_index_ready, overwrite, attempt, creates,
                  retried, index_error, elapsed, beside_search_index >>

\* collection.drop_search_index(index_name), with its own handler for an
\* index that is already being deleted.
DropSearchIndex ==
  /\ index_pc = "drop"
  /\ \/ /\ index_pc' = "verify"
        /\ retries' = 3
        /\ UNCHANGED << attempt, retried, index_error >>
     \/ \E e \in Failures :
          IF /\ e.type = "OperationFailure"
             /\ "Index already requested to be deleted" \in e.message
          THEN /\ index_pc' = "verify"
               /\ retries' = 3
               /\ UNCHANGED << attempt, retried, index_error >>
          ELSE Failed(e) /\ UNCHANGED retries
  /\ UNCHANGED << wait_until_index_ready, overwrite, creates, elapsed,
                  beside_search_index >>

\* while retries > 0 and self._search_index_exists(): one test of the loop.
VerifyDeleted ==
  /\ index_pc = "verify"
  /\ \E o \in ListOutcomes :
       IF retries > 0 /\ search_index_exists(o)
       THEN retries' = retries - 1 /\ UNCHANGED index_pc
       ELSE index_pc' = "create" /\ UNCHANGED retries
  /\ UNCHANGED << wait_until_index_ready, overwrite, attempt, creates,
                  retried, index_error, elapsed, beside_search_index >>

\* collection.create_search_index(model=search_index_model) and what follows
\* it: the wait, the return, or a handler.
CreateIndexCall ==
  /\ index_pc = "create"
  /\ \/ /\ creates' = Append(creates, [ attempt |-> attempt, error |-> None ])
        /\ IF wait_until_index_ready # 0
           THEN index_pc' = "wait" /\ elapsed' = 0
           ELSE index_pc' = "returned" /\ UNCHANGED elapsed
        /\ UNCHANGED << attempt, retried, index_error >>
     \/ \E e \in Failures :
          /\ creates' = Append(creates, [ attempt |-> attempt,
                                            error |-> Some(e) ])
          /\ Failed(e)
          /\ UNCHANGED elapsed
  /\ UNCHANGED << wait_until_index_ready, overwrite, retries,
                  beside_search_index >>

\* _wait_for_index_ready: one pass of its loop.  The index is there and the
\* loop is left, or the thread sleeps a second and looks again.
WaitForIndexReady ==
  /\ index_pc = "wait"
  /\ \E o \in ListOutcomes :
       IF search_index_exists(o)
       THEN index_pc' = "returned" /\ UNCHANGED elapsed
       ELSE /\ elapsed < MaxElapsed
            /\ elapsed' = elapsed + 1
            /\ UNCHANGED index_pc
  /\ UNCHANGED << wait_until_index_ready, overwrite, attempt, retries,
                  creates, retried, index_error, beside_search_index >>

IndexNext ==
  \/ \E ow \in BOOLEAN : CreateSearchIndex(ow)
  \/ AttemptBegin
  \/ DropSearchIndex
  \/ VerifyDeleted
  \/ CreateIndexCall
  \/ WaitForIndexReady

IndexSpec == IndexInit /\ [][IndexNext]_vars

\* ========================================================= AgenticChunking
\* Length of the longest document, and number of chunks after which a call
\* is not followed any further.
MaxTextLen == 4
MaxChunks == 5

\* The texts over a letter and a blank, up to a length.
RECURSIVE TextsUpTo(_)
TextsUpTo(n) ==
  IF n = 0 THEN { <<>> }
  ELSE LET shorter == TextsUpTo(n - 1)
       IN shorter \cup { Append(t, c) : t \in shorter, c \in { "a", " " } }

Documents == TextsUpTo(MaxTextLen)

\* Values of max_chunk_size.
ChunkSizes == { 1, 2 }

\* What self.model.response(...) does: it raises, returns nothing, or returns
\* a content that is empty, is not a number, or is a number.
ModelAnswers ==
  { [ kind |-> k, value |-> 0 ] : k \in { "raises", "none", "empty", "words" } }
  \cup { [ kind |-> "number", value |-> n ] : n \in -2..(MaxTextLen + 1) }

\* text[:stop] and text[start:] of Python, for any integer.
Position(text, i) ==
  IF i < 0
  THEN (IF Len(text) + i < 0 THEN 0 ELSE Len(text) + i)
  ELSE (IF i > Len(text) THEN Len(text) ELSE i)

SliceTo(text, stop) == SubSeq(text, 1, Position(text, stop))
SliceFrom(text, start) == SubSeq(text, Position(text, start) + 1, Len(text))

\* self.clean_text(text) is defined outside the files at hand: it is taken to
\* return the text with any of its white space deleted.
RECURSIVE clean_text(_)
clean_text(text) ==
  IF text = <<>> THEN { <<>> }
  ELSE LET rest == clean_text(Tail(text))
       IN { << Head(text) >> \o r : r \in rest }
          \cup (IF Head(text) = " " THEN rest ELSE {})

\* The break point taken from the model's answer: min(int(...), max_chunk_size),
\* or max_chunk_size when the model raises, answers nothing or answers
\* something int() rejects.
break_point(answer) ==
  IF answer.kind = "number"
  THEN (IF answer.value < max_chunk_size THEN answer.value ELSE max_chunk_size)
  ELSE max_chunk_size

\* The variables chunk leaves alone.
beside_chunker == << script, reader, search_index, store >>

\* AgenticChunking(model, max_chunk_size) and a document.
ChunkInit ==
  /\ ScriptStart
  /\ ReaderUnused
  /\ SearchIndexUnused
  /\ StoreUnused
  /\ max_chunk_size \in ChunkSizes
  /\ content \in Documents
  /\ remaining_text = <<>>
  /\ chunks = <<>>
  /\ chunk_number = 0
  /\ chunk_pc = "ready"

\* chunk(document) up to its loop: a short document is returned as it is.
Chunk ==
  /\ chunk_pc = "ready"
  /\ IF Len(content) <= max_chunk_size
     THEN /\ chunks' = << content >>
          /\ chunk_pc' = "returned"
          /\ UNCHANGED << remaining_text, chunk_number >>
     ELSE /\ chunks' = <<>>
          /\ remaining_text' \in clean_text(content)
          /\ chunk_number' = 1
          /\ chunk_pc' = "loop"
  /\ UNCHANGED << max_chunk_size, content, beside_chunker >>

\* One pass of while remaining_text: the model is asked, a chunk is cut off
\* and the rest is kept.
ChunkIteration ==
  /\ chunk_pc = "loop"
  /\ Truthy(remaining_text)
  /\ Len(chunks) < MaxChunks
  /\ \E answer \in ModelAnswers :
       /\ chunks' = Append(chunks, strip(SliceTo(remaining_text,
                                                 break_point(answer))))
       /\ remaining_text' = strip(SliceFrom(remaining_text, break_point(answer)))
  /\ chunk_number' = chunk_number + 1
  /\ UNCHANGED << max_chunk_size, content, chunk_pc, beside_chunker >>

\* The loop is left and chunks is returned.
ChunkReturn ==
  /\ chunk_pc = "loop"
  /\ ~Truthy(remaining_text)
  /\ chunk_pc' = "returned"
  /\ UNCHANGED << max_chunk_size, content, remaining_text, chunks,
                  chunk_number, beside_chunker >>

ChunkNext ==
  \/ Chunk
  \/ ChunkIteration
  \/ ChunkReturn

ChunkSpec == ChunkInit /\ [][ChunkNext]_vars

\* ===================================================== MongoDb, documents
\* Characters of a content: a letter, NUL and the replacement character.
NUL == "\\x00"
REPLACEMENT == "\\ufffd"

\* The contents of the documents that are stored and looked up.
StoreContents ==
  { <<>>, << "a" >>, << NUL >>, << REPLACEMENT >>, << "a", NUL >>,
    << "a", REPLACEMENT >> }

\* The lists of documents passed to insert and upsert.
DocumentLists ==
  { << c >> : c \in StoreContents } \cup
  { << c, d >> : c \in { << "a" >>, << "a", NUL >> }, d \in StoreContents }

\* str.replace(old, new)
RECURSIVE replace(_, _, _)
replace(text, old, new) ==
  IF text = <<>> THEN <<>>
  ELSE << IF Head(text) = old THEN new ELSE Head(text) >>
       \o replace(Tail(text), old, new)

\* md5(text.encode("utf-8")).hexdigest(): the digest, taken to be different
\* for different texts.
md5(text) == << "md5" >> \o text

\* prepare_doc(document) when the embedding was generated.
prepare_doc(document) ==
  LET cleaned_content == replace(document, NUL, REPLACEMENT)
  IN [ id |-> md5(cleaned_content), content |-> cleaned_content ]

\* The documents of the list whose embedding was generated, prepared.
RECURSIVE Prepared(_, _, _)
Prepared(documents, failing, i) ==
  IF i > Len(documents) THEN <<>>
  ELSE (IF i \in failing THEN <<>>
        ELSE << [ document |-> documents[i],
                  doc_data |-> prepare_doc(documents[i]) ] >>)
       \o Prepared(documents, failing, i + 1)

\* insert_many(prepared_docs, ordered=False): every document whose _id is not
\* taken yet is inserted.
RECURSIVE insert_many(_, _)
insert_many(coll, prepared) ==
  IF prepared = <<>> THEN coll
  ELSE insert_many(IF Head(prepared).doc_data.id \in DOMAIN coll THEN coll
                   ELSE Put(coll, Head(prepared).doc_data.id,
                            Head(prepared).doc_data),
                   Tail(prepared))

\* update_one({"_id": ...}, {"$set": doc_data}, upsert=True) for each document.
RECURSIVE update_each(_, _)
update_each(coll, prepared) ==
  IF prepared = <<>> THEN coll
  ELSE update_each(Put(coll, Head(prepared).doc_data.id, Head(prepared).doc_data),
                   Tail(prepared))

\* The documents of a prepared list that are in the collection afterwards,
\* each with the _id prepare_doc gave it.
Written(coll, prepared) ==
  { [ content |-> prepared[i].document, doc_id |-> prepared[i].doc_data.id ] :
      i \in { k \in 1..Len(prepared) :
                /\ prepared[k].doc_data.id \in DOMAIN coll
                /\ coll[prepared[k].doc_data.id] = prepared[k].doc_data } }

\* The variables the collection operations leave alone.
beside_store == << script, reader, search_index, chunker >>

\* An empty collection.
StoreInit ==
  /\ ScriptStart
  /\ ReaderUnused
  /\ SearchIndexUnused
  /\ ChunkerUnused
  /\ collection = Empty
  /\ stored = {}
  /\ lookup = None

\* insert(documents): the documents that could be prepared are inserted in
\* one insert_many, which can fail as a whole.
Insert ==
  /\ \E documents \in DocumentLists :
       \E failing \in SUBSET (1..Len(documents)) :
         LET prepared_docs == Prepared(documents, failing, 1)
         IN \/ /\ collection' = insert_many(collection, prepared_docs)
               /\ stored' = stored \cup
                    (Written(insert_many(collection, prepared_docs), prepared_docs)
                       \ Written(collection, prepared_docs))
            \/ /\ prepared_docs # <<>>
               /\ UNCHANGED << collection, stored >>
  /\ lookup' = None
  /\ UNCHANGED beside_store

\* upsert(documents): each document is prepared and written under its _id.
Upsert ==
  /\ \E documents \in DocumentLists :
       \E failing \in SUBSET (1..Len(documents)) :
         LET prepared_docs == Prepared(documents, failing, 1)
         IN /\ collection' = update_each(collection, prepared_docs)
            /\ stored' = stored \cup
                 Written(update_each(collection, prepared_docs), prepared_docs)
  /\ lookup' = None
  /\ UNCHANGED beside_store

\* doc_exists(document): find_one by the digest of the content; an exception
\* counts as "no".
DocExists ==
  /\ \E document \in StoreContents :
       LET doc_id == md5(document)
       IN \/ lookup' = Some([ content |-> document, doc_id |-> doc_id,
                              failed |-> FALSE,
                              exists |-> doc_id \in DOMAIN collection ])
          \/ lookup' = Some([ content |-> document, doc_id |-> doc_id,
                              failed |-> TRUE, exists |-> FALSE ])
  /\ UNCHANGED << collection, stored, beside_store >>

StoreNext ==
  \/ Insert
  \/ Upsert
  \/ DocExists

StoreSpec == StoreInit /\ [][StoreNext]_vars

\* ------------------------------------------------------------ properties
\* The handler of button b has acted on the press that started this run.
Handled(b) == clicked = b /\ b \in rendered

\* The invocations made for the button press numbered n.
CallsOf(n) == { i \in 1..Len(log) : log[i].action = n }

\* The invocations an agent variable has received.
CallsTo(a) == { i \in 1..Len(log) : log[i].agent = a }

ValidationError(message) == Element("error", <<message>>)

\* C1: when the daily coach, the assessor or the weekly plan is triggered with
\* an empty input text, the run shows the validation error of that handler and
\* nothing else, and no agent is invoked for that press: no call in the log
\* belongs to it, none is in flight and no response is bound.
C1_EmptyInputRejected ==
  LET Rejected(message) ==
        /\ ui = << ValidationError(message) >>
        /\ CallsOf(action_no) = {}
        /\ Len(log) = validated.passed
        /\ inflight = None
        /\ response = None
        /\ pc # "call"
  IN /\ Handled("Run Daily Language Coach")
          /\ session_state["daily_input"] = <<>>
          => Rejected("Please enter your daily input first.")
     /\ Handled("Run Language Assessor")
          /\ session_state["daily_input"] = <<>>
          => Rejected("Please enter your daily input first.")
     /\ Handled("Generate Weekly Plan")
          /\ session_state["weekly_summary"] = <<>>
          => Rejected("Please enter your weekly summary first.")

\* Witness of C1: the weekly plan was triggered with an empty summary and
\* rejected, after an agent had already been invoked by an earlier press.
C1_Witness ==
  /\ Handled("Generate Weekly Plan")
  /\ session_state["weekly_summary"] = <<>>
  /\ ui = << ValidationError("Please enter your weekly summary first.") >>
  /\ Len(log) = 1
  /\ pc = "idle"

\* C2: whenever an agent invocation has returned a response, the result shown
\* is exactly the content of that response: the run's output is the success
\* message, the heading and the content itself, and the terminal shows the
\* same content.
C2_ContentUnmodified ==
  response # None =>
    /\ Len(ui) = 3
    /\ ui[1].kind = "success"
    /\ ui[2] = Element("markdown", <<"### Google Doc Link:">>)
    /\ ui[3] = Element("markdown", response[1].content)
    /\ terminal = << response[1].content >>

\* Witness of C2: a response whose content ends in white space is shown.
C2_Witness ==
  /\ response = Some([ content |-> <<"garbled", " ">> ])
  /\ ui[3] = Element("markdown", <<"garbled", " ">>)
  /\ Handled("Practice Dutch Conversation")

\* C3: the number of agent invocations made so far equals the number of button
\* presses whose handler went on to its agent, every press has at most one
\* invocation, and presses that were rejected or never reached their handler
\* have none.
C3_OneCallPerAcceptedAction ==
  /\ Len(log) = validated.passed
  /\ validated.passed + validated.failed <= action_no
  /\ \A n \in 1..action_no : Cardinality(CallsOf(n)) <= 1
  /\ \A i \in 1..Len(log) : log[i].action \in 1..action_no

\* Witness of C3: two accepted presses and one rejected press, two calls.
C3_Witness ==
  /\ validated = [ passed |-> 2, failed |-> 1 ]
  /\ Len(log) = 2
  /\ pc = "idle"

\* The agent each trigger is meant to reach, by the agent's name.
RoutedTo(b) ==
  CASE b = "Run Daily Language Coach"    -> "Dutch Vocabulary Teacher"
    [] b = "Run Language Assessor"       -> "Dutch Grammar Coach"
    [] b = "Practice Dutch Conversation" -> "Virtual Dutch Partner"
    [] b = "Generate Weekly Plan"        -> "Weekly Language Planner"

\* C4: every invocation made for a button press goes to the agent of that
\* button and to no other: the daily coach button to the vocabulary teacher,
\* the assessor button to the grammar coach, the conversation button to the
\* conversation partner and the weekly button to the weekly planner.
C4_RoutedToOwnAgent ==
  /\ clicked \in Buttons =>
       \A i \in CallsOf(action_no) : log[i].name = RoutedTo(clicked)
  /\ inflight # None =>
       /\ inflight[1].handler = clicked
       /\ agents[inflight[1].agent].name = RoutedTo(clicked)

\* Witness of C4: three presses have reached three different agents.
C4_Witness ==
  /\ Len(log) = 3
  /\ log[1].name = "Dutch Grammar Coach"
  /\ log[2].name = "Weekly Language Planner"
  /\ log[3].name = "Dutch Vocabulary Teacher"

\* C5: every message the conversation partner agent has received is the one
\* fixed prompt of the conversation handler.
C5_FixedPrompt ==
  \A i \in CallsTo("virtual_partner_agent") : log[i].message = ConversationPrompt

\* Witness of C5: conversation practice ran twice with another operation in
\* between and a daily text in the session state.
C5_Witness ==
  /\ Len(log) = 3
  /\ log[1].agent = "virtual_partner_agent"
  /\ log[2].agent = "daily_coach_agent"
  /\ log[3].agent = "virtual_partner_agent"
  /\ log[1].message = log[3].message
  /\ log[1].action # log[3].action
  /\ session_state["daily_input"] # <<>>

\* C6: conversation practice has no required input: once its handler has
\* acted on a press, exactly one invocation of the conversation partner agent
\* belongs to that press, whatever the daily text and the weekly summary are,
\* and the run shows no validation error.
C6_ConversationNeedsNoInput ==
  Handled("Practice Dutch Conversation") =>
    /\ Cardinality(CallsOf(action_no)) = 1
    /\ \A i \in CallsOf(action_no) : log[i].agent = "virtual_partner_agent"
    /\ \A k \in 1..Len(ui) : ui[k].kind # "error"

\* Witness of C6: the conversation was dispatched with both texts empty.
C6_Witness ==
  /\ Handled("Practice Dutch Conversation")
  /\ session_state["daily_input"] = <<>>
  /\ session_state["weekly_summary"] = <<>>
  /\ widgets[DailyArea] = <<>>
  /\ widgets[WeeklyArea] = <<>>
  /\ pc = "call"
  /\ inflight[1].agent = "virtual_partner_agent"

\* The input the handler of button b checks is present in this run.
InputPresent(b) ==
  CASE b = "Run Daily Language Coach"    -> session_state["daily_input"] # <<>>
    [] b = "Run Language Assessor"       -> session_state["daily_input"] # <<>>
    [] b = "Practice Dutch Conversation" -> TRUE
    [] b = "Generate Weekly Plan"        -> session_state["weekly_summary"] # <<>>

\* C7: no caching, deduplication or retry: every press whose handler acted on
\* a present input has its own new invocation, also when the same agent was
\* sent the same message before, and a press whose invocation failed has that
\* one invocation only and its run is over.
C7_NoCacheNoRetry ==
  /\ \A b \in Buttons :
       Handled(b) /\ InputPresent(b) => Cardinality(CallsOf(action_no)) = 1
  /\ raised # None =>
       /\ Cardinality(CallsOf(action_no)) = 1
       /\ inflight = None
       /\ pc = "idle"

\* Witness of C7: the same operation was triggered three times with the same
\* text, each press has its own call, and the last call failed.
C7_Witness ==
  /\ Len(log) = 3
  /\ log[1].agent = log[2].agent /\ log[1].message = log[2].message
  /\ log[2].agent = log[3].agent /\ log[2].message = log[3].message
  /\ log[1].agent = "daily_coach_agent"
  /\ raised # None

\* The run has passed the key check.
PastKeyCheck == pc \notin { "session_init", "sidebar", "check_keys" }

\* C8: when one of the two keys is empty after stripping, the run ends at the
\* key check with the key error as its only output: no tool set is created, no
\* tool is requested, no agent is constructed, no button is drawn, and no
\* agent invocation is made or in flight.
C8_KeysRequired ==
  PastKeyCheck /\ ( session_state["openai_api_key"] = <<>>
                    \/ session_state["composio_api_key"] = <<>> ) =>
    /\ pc = "idle"
    /\ ui = << Element("error",
                 <<"Please enter your OpenAI and Composio API keys.">>) >>
    /\ composio_toolset = None
    /\ requested = <<>>
    /\ create_tools = <<>> /\ update_tools = <<>>
    /\ google_docs_tool = NoValue /\ google_docs_tool_update = NoValue
    /\ DOMAIN agents = {}
    /\ rendered = {}
    /\ inflight = None
    /\ response = None

\* Witness of C8: after an operation had been dispatched, the Composio key was
\* replaced by white space only, and the run stopped at the key check.
C8_Witness ==
  /\ pc = "idle"
  /\ session_state["openai_api_key"] # <<>>
  /\ session_state["composio_api_key"] = <<>>
  /\ widgets["Enter your Composio API Key"] = <<" ">>
  /\ Len(log) = 1
  /\ Len(ui) = 1

\* The run has passed the initialisation of the tools.
PastToolInit == PastKeyCheck /\ pc # "init_tools"

\* Both tool handles were obtained in this run.
ToolsObtained ==
  /\ composio_toolset # None
  /\ requested = << GOOGLEDOCS_CREATE_DOCUMENT,
                    GOOGLEDOCS_UPDATE_EXISTING_DOCUMENT >>
  /\ create_tools # <<>>
  /\ update_tools # <<>>
  /\ google_docs_tool = create_tools[1]
  /\ google_docs_tool_update = update_tools[1]

\* C9: either all four agents exist or none does; they exist only when the
\* tool set and both tool handles were obtained; a run in which the tool set,
\* the creation tool or the update tool is missing ends after the tool
\* initialisation with one error and without agents; and where no agent
\* exists no button is drawn and no invocation is in flight.
C9_NoPartialRegistry ==
  /\ DOMAIN agents = {} \/ DOMAIN agents = AgentVars
  /\ DOMAIN agents = AgentVars => ToolsObtained
  /\ PastToolInit /\ ~ToolsObtained =>
       /\ pc = "idle"
       /\ Len(ui) = 1 /\ ui[1].kind = "error"
       /\ DOMAIN agents = {}
  /\ DOMAIN agents = {} =>
       /\ rendered \cap Buttons = {}
       /\ inflight = None
       /\ pc \notin { "daily_tab", "daily_button", "assessor_button",
                      "conversation_button", "weekly_tab", "weekly_button",
                      "call" }

\* Witness of C9: the creation tool was obtained, the update tool was not, and
\* the run stopped without agents.
C9_Witness ==
  /\ pc = "idle"
  /\ create_tools = << GOOGLEDOCS_CREATE_DOCUMENT >>
  /\ update_tools = <<>>
  /\ DOMAIN agents = {}
  /\ ui = << Element("error",
       <<"Could not find the Google Docs Update Document tool. Check if Google Docs is connected in Composio.">>) >>
  /\ Len(log) = 1

\* C10: when the agent invocation of a run has raised, the run is over, its
\* only output is that exception, no success message and no result text is
\* shown, no response is bound and nothing is printed on the terminal.
C10_ErrorSurfaced ==
  raised # None =>
    /\ pc = "idle"
    /\ ui = << Element("exception", << raised[1] >>) >>
    /\ response = None
    /\ terminal = <<>>
    /\ inflight = None

\* Witness of C10: the weekly planner raised a model provider error.
C10_Witness ==
  /\ raised = Some("ModelProviderError")
  /\ Handled("Generate Weekly Plan")
  /\ ui = << Element("exception", << "ModelProviderError" >>) >>

\* The content holds a document link.
HasLink(c) == \E k \in 1..Len(c) : c[k] = "https://docs.example/abc"

\* C11: an operation whose agent has answered completes successfully whatever
\* the content is, with or without a document link: the run shows the success
\* message and the content, no error and no exception, and goes on.
C11_NoLinkRequired ==
  response # None =>
    /\ raised = None
    /\ \A k \in 1..Len(ui) : ui[k].kind \notin { "error", "exception" }
    /\ \E k \in 1..Len(ui) : ui[k].kind = "success"
    /\ ui[Len(ui)] = Element("markdown", response[1].content)
    /\ pc \in { "assessor_button", "conversation_button", "weekly_tab",
                "weekly_button", "idle" }

\* Witness of C11: the daily coach answered without a link and the run
\* finished with that content on the page.
C11_Witness ==
  /\ response # None
  /\ ~HasLink(response[1].content)
  /\ response[1].content # <<>>
  /\ Handled("Run Daily Language Coach")
  /\ pc = "idle"
  /\ ui[3].body = response[1].content

\* The agents a name identifies: those whose name or role it is.
Resolve(r) ==
  { a \in DOMAIN agents : agents[a].name = r \/ agents[a].role = r }

\* The four role names as the specification writes them.
ShortRoleNames ==
  { "Vocabulary Teacher", "Grammar Coach", "Weekly Planner",
    "Conversation Partner" }

\* The names and roles the Agent statements give.
RegisteredNames ==
  { "Dutch Vocabulary Teacher", "Dutch Grammar Coach",
    "Weekly Language Planner", "Dutch Learning Tracker and Planner",
    "Virtual Dutch Partner", "Dutch Conversation Practice Simulator" }

C13_OneToolAndInstructions ==
  /\ \A a \in DOMAIN agents :
       /\ Len(agents[a].tools) = 1
       /\ Len(agents[a].instructions) >= 1
       /\ \A k \in 1..Len(agents[a].instructions) : agents[a].instructions[k] # ""
  /\ DOMAIN agents \in { {}, AgentVars }

\* Witness of C13: the agents exist while an invocation is in flight.
C13_Witness ==
  /\ DOMAIN agents = AgentVars
  /\ pc = "call"
  /\ Len(agents["virtual_partner_agent"].instructions) = 6
  /\ Len(agents["daily_coach_agent"].tools) = 1

\* C14 as stated: once the agents exist, each of the four is bound to the
\* document-creation tool and to the document-update tool.
C14_Original ==
  \A a \in DOMAIN agents :
    /\ \E k \in 1..Len(agents[a].tools) : agents[a].tools[k] = google_docs_tool
    /\ \E k \in 1..Len(agents[a].tools) : agents[a].tools[k] = google_docs_tool_update

\* C14, amended: once the agents exist, the tool list of each of the four is
\* the document-creation tool alone; the document-update tool has been
\* obtained and bound to google_docs_tool_update, and is in no agent's list.
C14_CreateToolOnly ==
  \A a \in DOMAIN agents :
    /\ agents[a].tools = << google_docs_tool >>
    /\ google_docs_tool = create_tools[1]
    /\ google_docs_tool = GOOGLEDOCS_CREATE_DOCUMENT
    /\ google_docs_tool_update = update_tools[1]
    /\ google_docs_tool_update = GOOGLEDOCS_UPDATE_EXISTING_DOCUMENT
    /\ \A k \in 1..Len(agents[a].tools) : agents[a].tools[k] # google_docs_tool_update

\* Witness of C14: the agents have just been constructed with both handles
\* obtained.
C14_Witness ==
  /\ pc = "daily_tab"
  /\ DOMAIN agents = AgentVars
  /\ google_docs_tool_update = GOOGLEDOCS_UPDATE_EXISTING_DOCUMENT
  /\ agents["weekly_planner_agent"].tools = << GOOGLEDOCS_CREATE_DOCUMENT >>

\* The text area whose value the handler of button b sends.
AreaOf(b) == IF b = "Generate Weekly Plan" THEN WeeklyArea ELSE DailyArea

\* C15: the message of every invocation made for a press of the daily coach,
\* assessor or weekly plan button is exactly the value the user typed into the
\* text area of that handler, white space included.
C15_MessageVerbatim ==
  clicked \in Buttons \ { "Practice Dutch Conversation" } =>
    /\ \A i \in CallsOf(action_no) : log[i].message = widgets[AreaOf(clicked)]
    /\ inflight # None => inflight[1].message = widgets[AreaOf(clicked)]

\* Witness of C15: the grammar coach was sent a daily text that begins and
\* ends with white space.
C15_Witness ==
  /\ clicked = "Run Language Assessor"
  /\ inflight # None
  /\ inflight[1].agent = "language_assessor_agent"
  /\ inflight[1].message = << " ", "hoi", " " >>
  /\ widgets[DailyArea] = << " ", "hoi", " " >>
  /\ log[Len(log)].message = << " ", "hoi", " " >>

\* C16: the agents that exist are always the four definitions of the Agent
\* statements (built from the key of the session state and the creation
\* tool), and no step changes them: after their construction they stay as
\* they are through every handler, accepted, rejected or failed, until the
\* next script run starts from an empty namespace.
C16_AgentsNeverMutated ==
  /\ [](DOMAIN agents = AgentVars =>
          agents = AgentDefinitions(session_state["openai_api_key"],
                                    GOOGLEDOCS_CREATE_DOCUMENT))
  /\ [][ DOMAIN agents = AgentVars =>
           \/ agents' = agents
           \/ pc = "idle" /\ pc' = "session_init" /\ agents' = Empty ]_vars

\* Witness of C16: three operations have invoked agents, the last one failed,
\* and the agents of the run are there as constructed.
C16_Witness ==
  /\ Len(log) = 3
  /\ raised # None
  /\ DOMAIN agents = AgentVars
  /\ Len(agents["daily_coach_agent"].instructions) = 11
  /\ pc = "idle"

\* The text stored under a session-state key, empty while the key is missing.
Stored(k) == IF k \in DOMAIN session_state THEN session_state[k] ELSE <<>>

\* The script positions of the four handlers and of their agent call.
HandlerPositions ==
  { "daily_button", "assessor_button", "conversation_button", "weekly_button",
    "call" }

\* C17: no handler step, accepting, rejecting, returning or failing, changes
\* the daily text or the weekly summary, neither the value of the text area
\* nor the value stored in the session state; the value of a text area changes
\* only by the user's edit of that area between runs, and a stored text only
\* changes to the value of its own text area.
C17_InputsReadOnly ==
  [][ /\ pc \in HandlerPositions =>
           /\ widgets' = widgets
           /\ Stored("daily_input")' = Stored("daily_input")
           /\ Stored("weekly_summary")' = Stored("weekly_summary")
      /\ widgets' # widgets => pc = "idle" /\ clicked' = NoValue
      /\ \A w \in TextAreas : widgets'[w] # widgets[w] => w \in rendered
      /\ Stored("daily_input")' # Stored("daily_input") =>
           pc = "daily_tab" /\ Stored("daily_input")' = widgets[DailyArea]
      /\ Stored("weekly_summary")' # Stored("weekly_summary") =>
           pc = "weekly_tab" /\ Stored("weekly_summary")' = widgets[WeeklyArea]
    ]_vars

\* Witness of C17: an accepted, a rejected and a failed operation have run and
\* the daily text is still what the user typed.
C17_Witness ==
  /\ validated = [ passed |-> 2, failed |-> 1 ]
  /\ raised # None
  /\ pc = "idle"
  /\ session_state["daily_input"] = << " ", "hoi", " " >>
  /\ widgets[DailyArea] = << " ", "hoi", " " >>
  /\ session_state["weekly_summary"] = <<>>

\* The validation message of the handler of button b.
ErrorOf(b) ==
  IF b = "Generate Weekly Plan"
  THEN "Please enter your weekly summary first."
  ELSE "Please enter your daily input first."

\* The success message of the handler of button b.
SuccessOf(b) ==
  CASE b = "Run Daily Language Coach"    -> "Feedback generated!"
    [] b = "Run Language Assessor"       -> "Assessment complete!"
    [] b = "Practice Dutch Conversation" -> "Conversation complete!"
    [] b = "Generate Weekly Plan"        -> "Weekly plan created!"

\* The output of an operation as a function of the button, of whether its
\* input is present and of what its agent did: nothing of what happened before
\* the press enters.
OutcomeOf(b, present, calling, answer, failure) ==
  IF ~present THEN << ValidationError(ErrorOf(b)) >>
  ELSE IF calling THEN <<>>
  ELSE IF failure # None THEN << Element("exception", << failure[1] >>) >>
  ELSE << Element("success", << SuccessOf(b) >>),
          Element("markdown", <<"### Google Doc Link:">>),
          Element("markdown", answer[1].content) >>

\* C18: the outcome of an operation is a function of its own input and of the
\* answer or failure of its agent alone: in every state in which a handler has
\* acted, whatever operations ran before and whatever they returned, the
\* output of the run is the validation error when the input is empty, and
\* else nothing while the agent is called, then the agent's exception or the
\* success message with the agent's content.
C18_OutcomeDependsOnInputOnly ==
  \A b \in Buttons :
    Handled(b) =>
      /\ InputPresent(b) /\ inflight = None => response # None \/ raised # None
      /\ ~InputPresent(b) => response = None /\ raised = None /\ inflight = None
      /\ ui = OutcomeOf(b, InputPresent(b), inflight # None, response, raised)

\* Witness of C18: the third operation of a behaviour, after an accepted and a
\* rejected one, ends with the output its own input and answer determine.
C18_Witness ==
  /\ Handled("Run Daily Language Coach")
  /\ action_no = 3
  /\ validated = [ passed |-> 2, failed |-> 1 ]
  /\ log[1].agent = "daily_coach_agent"
  /\ log[1].message = log[2].message
  /\ response = Some([ content |-> <<"garbled", " ">> ])
  /\ pc = "idle"

C20_NoTimeout ==
  /\ [](\A b \in Buttons :
          Handled(b) /\ InputPresent(b) /\ pc # "call" =>
            response # None \/ raised # None)
  /\ [][ pc = "call" =>
           /\ response' # None \/ raised' # None
           /\ inflight' = None ]_vars
  /\ (response # None) ~> (pc = "idle" /\ response # None /\ Len(ui) = 3)

\* Witness of C20: the daily coach has answered and the run has gone through
\* the rest of the script to its end.
C20_Witness ==
  /\ response # None
  /\ Handled("Run Daily Language Coach")
  /\ pc = "idle"
  /\ WeeklyArea \in rendered
  /\ Len(ui) = 3

\* The session-state key the handler of button b reads its input from.
KeyOf(b) == IF b = "Generate Weekly Plan" THEN "weekly_summary" ELSE "daily_input"

\* The session-state key of the other input field.
OtherKeyOf(b) == IF b = "Generate Weekly Plan" THEN "daily_input" ELSE "weekly_summary"

\* C21: the two input fields are independent.  Once the handler of the daily
\* coach, of the assessor or of the weekly plan has acted, it has rejected the
\* press exactly when its own text is empty and has invoked its agent exactly
\* when its own text is present, whatever the other field holds; the message
\* sent is its own text, never the other one.
C21_FieldsIndependent ==
  \A b \in Buttons \ { "Practice Dutch Conversation" } :
    Handled(b) =>
      /\ Stored(KeyOf(b)) = <<>> <=> ui = << ValidationError(ErrorOf(b)) >>
      /\ Stored(KeyOf(b)) # <<>> <=> CallsOf(action_no) # {}
      /\ \A i \in CallsOf(action_no) :
           /\ log[i].message = Stored(KeyOf(b))
           /\ Stored(OtherKeyOf(b)) # Stored(KeyOf(b)) =>
                log[i].message # Stored(OtherKeyOf(b))

\* Witness of C21: the daily coach is called with the daily text while the
\* weekly summary is empty, after a weekly plan press had been rejected for
\* its empty summary.
C21_Witness ==
  /\ Handled("Run Daily Language Coach")
  /\ Stored("weekly_summary") = <<>>
  /\ Stored("daily_input") = << " ", "hoi", " " >>
  /\ validated = [ passed |-> 1, failed |-> 1 ]
  /\ inflight # None
  /\ inflight[1].message = << " ", "hoi", " " >>

\* ---------------------------------------------- properties of WebsiteReader
\* The URLs a list of GET requests went to.
UrlsOf(gets) == { gets[i].url : i \in 1..Len(gets) }

\* Every GET of the list was sent at a depth within max_depth, and every key
\* of the mapping was fetched by one of them.
WithinDepth(gets, mapping) ==
  /\ \A i \in 1..Len(gets) : gets[i].depth <= max_depth
  /\ DOMAIN mapping \subseteq UrlsOf(gets)

\* C22: crawl and async_crawl respect max_depth.  Every GET request of a
\* call, running or returned, was sent for a URL whose recorded depth is at
\* most max_depth, and every URL in the result of the call is one of those.
C22_DepthRespected ==
  /\ WithinDepth(fetched, crawler_result)
  /\ \A k \in 1..Len(returned) :
       WithinDepth(returned[k].fetched, returned[k].result)

\* Witness of C22: async_crawl with max_depth 2 has fetched the start page and
\* a page at depth 2 whose link to a page not yet visited, recorded at depth
\* 3, was not fetched; a crawl that started at depth 2 has returned as well.
C22_Witness ==
  /\ max_depth = 2
  /\ max_links = 2
  /\ site[Root].links = << Root, PageP >>
  /\ site[PageP] = [ status |-> "ok", content |-> <<>>,
                     links |-> << PageW, FilePdf, Offsite >> ]
  /\ Len(returned) = 2
  /\ returned[1].method = "async_crawl"
  /\ returned[1].starting_depth = 1
  /\ UrlsOf(returned[1].fetched) = { Root, PageP }
  /\ returned[2].method = "crawl"
  /\ returned[2].starting_depth = 2

\* Every GET of the list was sent while fewer than max_links pages had been
\* collected, and the mapping has at most max_links entries.
WithinBudget(gets, mapping) ==
  /\ \A i \in 1..Len(gets) : gets[i].collected < max_links
  /\ Cardinality(DOMAIN mapping) <= max_links

\* C23: crawl and async_crawl respect the link budget.  The mapping of a call,
\* while it is built and when it is returned, has at most max_links entries
\* (as many as num_links counts), and every GET request was sent while fewer
\* than max_links pages had been collected.
C23_LinkBudget ==
  /\ WithinBudget(fetched, crawler_result)
  /\ Cardinality(DOMAIN crawler_result) = num_links
  /\ \A k \in 1..Len(returned) :
       WithinBudget(returned[k].fetched, returned[k].result)

\* Witness of C23: with max_links 1, crawl has collected the start page and
\* returned without fetching the two pages it links to, which both have
\* content.
C23_Witness ==
  /\ max_links = 1
  /\ max_depth = 2
  /\ site[Root] = [ status |-> "ok", content |-> << "text" >>,
                    links |-> << PageP, PageW, PageP >> ]
  /\ site[PageP].content = << "text" >>
  /\ site[PageW].content = << "text" >>
  /\ Len(returned) = 1
  /\ returned[1].method = "crawl"
  /\ DOMAIN returned[1].result = { Root }
  /\ UrlsOf(returned[1].fetched) = { Root }

\* C24: crawl terminates.  Within one call no URL is fetched twice; a GET that
\* fails changes neither the result nor the fact that the loop is running;
\* and a crawl that has started reaches its return with the list of URLs
\* empty.
C24_CrawlTerminates ==
  /\ [](\A i, j \in 1..Len(fetched) :
          i # j => fetched[i].url # fetched[j].url)
  /\ [][ /\ crawl_pc = "crawl"
         /\ Len(fetched') > Len(fetched)
         /\ site[fetched'[Len(fetched')].url].status = "error"
         => /\ crawl_pc' = "crawl"
            /\ crawler_result' = crawler_result
            /\ num_links' = num_links ]_vars
  /\ (crawl_pc = "crawl") ~> (crawl_pc = "ready" /\ urls_to_crawl = <<>>)

\* Witness of C24: on a site where the start page links to two pages, one of
\* which fails and the other links back to the start page, crawl has fetched
\* all three once and returned.
C24_Witness ==
  /\ max_depth = 2
  /\ max_links = 2
  /\ site[Root].links = << PageP, PageW, PageP >>
  /\ site[PageP].status = "error"
  /\ site[PageW].links = << Root, PageP >>
  /\ crawl_pc = "ready"
  /\ urls_to_crawl = <<>>
  /\ Len(returned) = 1
  /\ returned[1].method = "crawl"
  /\ Len(returned[1].fetched) = 3
  /\ returned[1].fetched[2].url = PageP
  /\ returned[1].fetched[3].url = PageW

\* C25: a crawl does not depend on earlier crawls by the same reader.  Any two
\* calls that have returned on one reader for the same URL and the same
\* starting depth, by crawl or by async_crawl, returned the same mapping.
C25_CrawlIndependent ==
  \A i, j \in 1..Len(returned) :
    /\ returned[i].url = returned[j].url
    /\ returned[i].starting_depth = returned[j].starting_depth
    => returned[i].result = returned[j].result

\* ------------------------------------- properties of the MongoDb search index
\* The failure is an OperationFailure whose message contains 'Duplicate Index'.
DuplicateIndex(e) == e.type = "OperationFailure" /\ "Duplicate Index" \in e.message

\* C26: _create_search_index makes at most 3 index-creation attempts.  There
\* are at most max_retries = 3 create_search_index calls, one per attempt at
\* most; the loop has gone on to another attempt only after an
\* OperationFailure whose message contains 'Duplicate Index'; a create call
\* that fails in any other way, or fails on the third attempt, is followed by
\* the exception being raised with no further call; and the function is past
\* its create call (waiting for the index, or returned) only when its last
\* create_search_index call succeeded.
C26_AtMostThreeAttempts ==
  /\ Len(creates) <= max_retries
  /\ attempt <= max_retries - 1
  /\ \A i, j \in 1..Len(creates) : i < j => creates[i].attempt < creates[j].attempt
  /\ Len(retried) = attempt
  /\ \A i \in 1..Len(retried) : DuplicateIndex(retried[i])
  /\ \A i \in 1..Len(creates) :
       creates[i].error # None =>
         IF DuplicateIndex(creates[i].error[1])
            /\ creates[i].attempt < max_retries - 1
         THEN retried[creates[i].attempt + 1] = creates[i].error[1]
         ELSE /\ i = Len(creates)
              /\ index_pc = "raised"
              /\ index_error = creates[i].error
  /\ index_pc \in { "wait", "returned" } =>
       /\ creates # <<>>
       /\ creates[Len(creates)].error = None
  /\ index_pc = "raised" => index_error # None

\* Witness of C26: two attempts failed with Duplicate Index, the third
\* create_search_index call succeeded and the function has returned.
C26_Witness ==
  /\ index_pc = "returned"
  /\ attempt = 2
  /\ Len(creates) = 3
  /\ creates[1].error = Some(OperationFailure({ "Duplicate Index" }))
  /\ creates[2].error = Some(OperationFailure({ "Duplicate Index" }))
  /\ creates[3].error = None

\* C27: the synchronous _wait_for_index_ready always terminates,
\* wait_until_index_ready being the time to wait: the wait is never still
\* looping after it has slept for more than wait_until_index_ready seconds.
C27_WaitEndsInTime ==
  index_pc = "wait" => elapsed <= wait_until_index_ready

\* ------------------------------------------ properties of AgenticChunking
\* C28: chunk terminates for every document and every model answer: every
\* pass of its loop leaves a remaining text that is strictly shorter.
C28_EveryPassShortens ==
  [][ chunk_pc = "loop" /\ Truthy(remaining_text) =>
        Len(remaining_text') < Len(remaining_text) ]_vars

\* C29: every document returned by chunk has at most max_chunk_size
\* characters: each chunk cut off in the loop has, and a document no longer
\* than max_chunk_size is returned unchanged as the only chunk.
C29_ChunksWithinSize ==
  /\ \A i \in 1..Len(chunks) : Len(chunks[i]) <= max_chunk_size
  /\ chunk_pc = "returned" /\ Len(content) <= max_chunk_size =>
       chunks = << content >>

\* ------------------------------------- properties of the MongoDb documents
\* C30: store-then-lookup round trip.  A doc_exists call that went through,
\* for a document that insert or upsert has stored, returned true, and it
\* computed the _id the document was stored under.
C30_StoredIsFound ==
  lookup # None /\ ~lookup[1].failed =>
    \A d \in stored :
      d.content = lookup[1].content =>
        /\ lookup[1].exists
        /\ lookup[1].doc_id = d.doc_id

====
